---- MODULE Spec2Model ----
(***************************************************************************)
(* Model of the incident segmentation and structured-analysis pipeline of  *)
(* backend/analyzer.py: clean_text, normalize_title, _split_sections,      *)
(* _coerce_to_fields and the retry loop of analyze_text.                   *)
(*                                                                         *)
(* A text is a sequence of characters.  An ASCII character is the TLA+     *)
(* string of length one that holds it; the one non-ASCII character of the  *)
(* model, e-acute, is written "U+00E9" (upper case "U+00C9").               *)
(***************************************************************************)
EXTENDS Integers, Sequences, FiniteSets, TLC

\* ------------------------------------------------------------------------
\* Bounds of the model
\* ------------------------------------------------------------------------
MaxPieces == 5

MaxDocLines == 3

MaxRetries == 2

MaxRetryLines == 2

MaxAppLines == 2

MaxRequests == 1

\* ------------------------------------------------------------------------
\* Characters
\* ------------------------------------------------------------------------
LowerChars == <<"a","b","c","d","e","f","g","h","i","j","k","l","m",
                "n","o","p","q","r","s","t","u","v","w","x","y","z">>

UpperChars == <<"A","B","C","D","E","F","G","H","I","J","K","L","M",
                "N","O","P","Q","R","S","T","U","V","W","X","Y","Z">>

DigitChars == <<"0","1","2","3","4","5","6","7","8","9">>

Range(f) == { f[i] : i \in DOMAIN f }

EAcute == "U+00E9"

EAcuteUpper == "U+00C9"

LowerSet == Range(LowerChars) \cup {EAcute}

UpperSet == Range(UpperChars) \cup {EAcuteUpper}

DigitSet == Range(DigitChars)

\* \s of the re module, restricted to the whitespace of the model
SpaceSet == {" ", "\n", "\t"}

\* \w of the re module (str patterns are Unicode-aware)
WordSet == LowerSet \cup UpperSet \cup DigitSet \cup {"_"}

IsLower(c) == c \in LowerSet

IsUpper(c) == c \in UpperSet

IsDigit(c) == c \in DigitSet

IsSpace(c) == c \in SpaceSet

IsWord(c) == c \in WordSet

\* str.lower() / str.upper() on one character
LowerOf == [c \in UpperSet |-> IF c = EAcuteUpper THEN EAcute
                               ELSE LowerChars[CHOOSE i \in 1..26 : UpperChars[i] = c]]

UpperOf == [c \in LowerSet |-> IF c = EAcute THEN EAcuteUpper
                               ELSE UpperChars[CHOOSE i \in 1..26 : LowerChars[i] = c]]

ToLower(c) == IF c \in UpperSet THEN LowerOf[c] ELSE c

ToUpper(c) == IF c \in LowerSet THEN UpperOf[c] ELSE c

\* ------------------------------------------------------------------------
\* Generic string helpers (str.strip, str.split, " ".join, concatenation)
\* ------------------------------------------------------------------------
\* LET x == e IN Body(x), with e evaluated once however often Body uses x
Force(e, Body(_)) == CHOOSE r \in { Body(x) : x \in {e} } : TRUE

\* Long texts are handled by halving, which keeps the evaluation shallow.
\* Concatenation of the texts f[lo], ..., f[hi]
RECURSIVE ConcatRange(_, _, _)
ConcatRange(f, lo, hi) ==
    IF lo > hi THEN <<>>
    ELSE IF lo = hi THEN f[lo]
    ELSE Force((lo + hi) \div 2, LAMBDA mid :
           ConcatRange(f, lo, mid) \o ConcatRange(f, mid + 1, hi))

Concat(ss) == ConcatRange(ss, 1, Len(ss))

\* the first (last) index in lo..hi at which the Boolean function m holds,
\* 0 when there is none
RECURSIVE FirstTrue(_, _, _)
FirstTrue(m, lo, hi) ==
    IF lo > hi THEN 0
    ELSE IF lo = hi THEN (IF m[lo] THEN lo ELSE 0)
    ELSE Force((lo + hi) \div 2, LAMBDA mid :
           Force(FirstTrue(m, lo, mid), LAMBDA l :
             IF l # 0 THEN l ELSE FirstTrue(m, mid + 1, hi)))

RECURSIVE LastTrue(_, _, _)
LastTrue(m, lo, hi) ==
    IF lo > hi THEN 0
    ELSE IF lo = hi THEN (IF m[lo] THEN lo ELSE 0)
    ELSE Force((lo + hi) \div 2, LAMBDA mid :
           Force(LastTrue(m, mid + 1, hi), LAMBDA r :
             IF r # 0 THEN r ELSE LastTrue(m, lo, mid)))

\* the indices at which m holds, in increasing order
IndicesOf(m, n) == Concat([i \in 1..n |-> IF m[i] THEN <<i>> ELSE <<>>])

\* str.strip()
Strip(s) ==
    Force(FirstTrue([i \in 1..Len(s) |-> ~ IsSpace(s[i])], 1, Len(s)), LAMBDA a :
      IF a = 0 THEN <<>>
      ELSE SubSeq(s, a, LastTrue([i \in 1..Len(s) |-> ~ IsSpace(s[i])], 1, Len(s))))

\* str[:n]
Prefix(s, n) == SubSeq(s, 1, IF Len(s) < n THEN Len(s) ELSE n)

\* str.splitlines(): lines end at a line break; no empty last line
SplitLines(s) ==
    Force(IndicesOf([i \in 1..Len(s) |-> s[i] = "\n"], Len(s)), LAMBDA br :
      LET n  == Len(br)
          start(k) == IF k = 1 THEN 1 ELSE br[k - 1] + 1
      IN  [k \in 1..n |-> SubSeq(s, start(k), br[k] - 1)]
          \o (IF start(n + 1) <= Len(s) THEN <<SubSeq(s, start(n + 1), Len(s))>>
              ELSE <<>>))

\* str.split(): whitespace-separated words, no empty words
SplitWords(s) ==
    LET n == Len(s)
    IN  Force(IndicesOf([i \in 1..n |-> ~ IsSpace(s[i])
                                        /\ (i = 1 \/ IsSpace(s[i - 1]))], n),
              LAMBDA starts :
          Force(IndicesOf([i \in 1..n |-> ~ IsSpace(s[i])
                                          /\ (i = n \/ IsSpace(s[i + 1]))], n),
                LAMBDA ends :
            [k \in 1..Len(starts) |-> SubSeq(s, starts[k], ends[k])]))

\* " ".join(words)
JoinSpace(ws) ==
    Concat([k \in 1..Len(ws) |-> IF k = 1 THEN ws[k] ELSE <<" ">> \o ws[k]])

\* ------------------------------------------------------------------------
\* clean_text
\* ------------------------------------------------------------------------
\* re.sub(r"(?<=\w)\s(?=\w)", "", text): a whitespace character standing
\* between two word characters is deleted
RemoveIntraWordGaps(s) ==
    Concat([i \in 1..Len(s) |->
              IF /\ IsSpace(s[i])
                 /\ i > 1 /\ IsWord(s[i - 1])
                 /\ i < Len(s) /\ IsWord(s[i + 1])
              THEN <<>> ELSE <<s[i]>>])

\* re.sub(r"\s+", " ", text): every whitespace run becomes one space
CollapseSpaces(s) ==
    Concat([i \in 1..Len(s) |->
              IF ~ IsSpace(s[i]) THEN <<s[i]>>
              ELSE IF i > 1 /\ IsSpace(s[i - 1]) THEN <<>> ELSE <<" ">>])

clean_text(text) ==
    IF text = <<>> THEN <<>>
    ELSE Force(RemoveIntraWordGaps(text), LAMBDA t1 :
           Force(CollapseSpaces(t1), LAMBDA t2 : Strip(t2)))

\* ------------------------------------------------------------------------
\* normalize_title
\* ------------------------------------------------------------------------
\* s[i..] starts with lit (case-sensitive)
StartsWithAt(s, i, lit) ==
    /\ i >= 1
    /\ i + Len(lit) - 1 <= Len(s)
    /\ \A k \in 1..Len(lit) : s[i + k - 1] = lit[k]

\* s[i..] starts with lit, ignoring case ((?i))
StartsWithAtCI(s, i, lit) ==
    /\ i >= 1
    /\ i + Len(lit) - 1 <= Len(s)
    /\ \A k \in 1..Len(lit) : ToLower(s[i + k - 1]) = ToLower(lit[k])

\* re.sub(r"(?<=Case)(\d)", r" \1", title)
SpaceAfterCase(s) ==
    Concat([i \in 1..Len(s) |->
              IF IsDigit(s[i]) /\ StartsWithAt(s, i - 4, <<"C","a","s","e">>)
              THEN <<" ", s[i]>> ELSE <<s[i]>>])

\* re.sub(r"(?<=\d)(?=\()", " ", title)
SpaceBeforeParen(s) ==
    Concat([i \in 1..Len(s) |->
              IF s[i] = "(" /\ i > 1 /\ IsDigit(s[i - 1])
              THEN <<" ", s[i]>> ELSE <<s[i]>>])

\* str.isupper(): at least one cased character and no lowercase one
StrIsUpper(w) == /\ \E i \in 1..Len(w) : IsUpper(w[i])
                 /\ \A i \in 1..Len(w) : ~ IsLower(w[i])

\* str.capitalize(): first character upper-cased, the rest lower-cased
Capitalize(w) ==
    [i \in 1..Len(w) |-> IF i = 1 THEN ToUpper(w[i]) ELSE ToLower(w[i])]

CapWord(w) == IF Len(w) > 1 /\ StrIsUpper(w) THEN w ELSE Capitalize(w)

normalize_title(title) ==
    IF title = <<>> THEN <<>>
    ELSE Force(clean_text(title), LAMBDA t1 :
           Force(SpaceAfterCase(t1), LAMBDA t2 :
             Force(SpaceBeforeParen(t2), LAMBDA t3 :
               Force(SplitWords(t3), LAMBDA words :
                 JoinSpace([k \in 1..Len(words) |-> CapWord(words[k])])))))

\* ------------------------------------------------------------------------
\* _split_sections
\* ------------------------------------------------------------------------
\* the first index from i on that holds no character of the class, Len(s) + 1
\* when the text ends first
SkipWhile(s, i, InClass(_)) ==
    Force(FirstTrue([k \in 1..Len(s) |-> ~ InClass(s[k])], i, Len(s)), LAMBDA j :
      IF j = 0 THEN (IF i > Len(s) THEN i ELSE Len(s) + 1) ELSE j)

SkipSpaces(s, i) == SkipWhile(s, i, IsSpace)

\* re.match(r"(?i)(test\s*case\s*\d+|scenario\s*\d+)", s)
HeadingMatch(s) ==
    \/ /\ StartsWithAtCI(s, 1, <<"t","e","s","t">>)
       /\ Force(SkipSpaces(s, 5), LAMBDA i :
            /\ StartsWithAtCI(s, i, <<"c","a","s","e">>)
            /\ Force(SkipSpaces(s, i + 4), LAMBDA j : j <= Len(s) /\ IsDigit(s[j])))
    \/ /\ StartsWithAtCI(s, 1, <<"s","c","e","n","a","r","i","o">>)
       /\ Force(SkipSpaces(s, 9), LAMBDA j : j <= Len(s) /\ IsDigit(s[j]))

IsHeadingLine(line) == Force(Strip(line), LAMBDA t : HeadingMatch(t))

EmptySection == [title |-> <<>>, body |-> <<>>]

\* one iteration of the for loop over the lines, on the pair st of the
\* sections list and the current section
SplitLine(st, line) ==
    IF IsHeadingLine(line)
    THEN IF st.current.title # <<>> \/ st.current.body # <<>>
         THEN [sections |-> Append(st.sections, st.current),
               current  |-> [title |-> Strip(line), body |-> <<>>]]
         ELSE [st EXCEPT !.current.title = Strip(line)]
    ELSE [st EXCEPT !.current.body = @ \o Strip(line) \o <<" ">>]

\* the for loop over the lines from line k on
RECURSIVE SplitLoop(_, _, _)
SplitLoop(lines, k, st) ==
    IF k > Len(lines) THEN st
    ELSE Force(SplitLine(st, lines[k]), LAMBDA st2 : SplitLoop(lines, k + 1, st2))

split_sections(content) ==
    Force(SplitLines(content), LAMBDA lines :
      Force(SplitLoop(lines, 1, [sections |-> <<>>, current |-> EmptySection]),
            LAMBDA r :
        Force(IF r.current.title # <<>> \/ r.current.body # <<>>
              THEN Append(r.sections, r.current) ELSE r.sections,
              LAMBDA raw :
          [k \in 1..Len(raw) |-> [title |-> normalize_title(raw[k].title),
                                  body  |-> clean_text(raw[k].body)]])))

\* ------------------------------------------------------------------------
\* String literals of analyzer.py
\* ------------------------------------------------------------------------
KeySummary == <<"s","u","m","m","a","r","y">>

KeyRootCause == <<"r","o","o","t","_","c","a","u","s","e">>

KeyRecommendation == <<"r","e","c","o","m","m","e","n","d","a","t","i","o","n">>

KeyCategory == <<"c","a","t","e","g","o","r","y">>

KeySeverity == <<"s","e","v","e","r","i","t","y">>

StrNA == <<"N","/","A">>

StrUncategorized == <<"U","n","c","a","t","e","g","o","r","i","z","e","d">>

StrUnknown == <<"U","n","k","n","o","w","n">>

StrInvalidAIOutput == <<"I","n","v","a","l","i","d"," ","A","I"," ","o","u","t","p","u","t">>

StrParsingFailed == <<"P","a","r","s","i","n","g"," ","f","a","i","l","e","d">>

StrManualReview == <<"M","a","n","u","a","l"," ","r","e","v","i","e","w"," ","r","e","q","u","i","r","e","d">>

StrError == <<"E","r","r","o","r">>

StrParsingFailedAfter == <<"A","I"," ","p","a","r","s","i","n","g"," ","f","a","i","l","e","d"," ","a","f","t","e","r"," ">>

StrAttempts == <<" ","a","t","t","e","m","p","t","s",".">>

StrManualReviewDot == <<"M","a","n","u","a","l"," ","r","e","v","i","e","w"," ","r","e","q","u","i","r","e","d",".">>

StrIncident == <<"I","n","c","i","d","e","n","t"," ">>

\* str(n) for n >= 0, as the f-strings format retries and idx
RECURSIVE IntToStr(_)
IntToStr(n) == IF n < 10 THEN <<DigitChars[n + 1]>>
               ELSE IntToStr(n \div 10) \o <<DigitChars[(n % 10) + 1]>>

\* ------------------------------------------------------------------------
\* JSON values and json.loads
\* ------------------------------------------------------------------------
\* A JSON value is a record [t, s, kids]: t is its type, s the text of a
\* string or the literal of a number, kids the members [k, v] of an object
\* or the items [k |-> <<>>, v] of an array.
JNull == [t |-> "null", s |-> <<>>, kids |-> <<>>]

JBool(b) == [t |-> "bool", s |-> IF b THEN <<"t">> ELSE <<"f">>, kids |-> <<>>]

JNum(lit) == [t |-> "num", s |-> lit, kids |-> <<>>]

JStr(str) == [t |-> "str", s |-> str, kids |-> <<>>]

JArr(items) == [t |-> "arr", s |-> <<>>, kids |-> items]

JObj(members) == [t |-> "obj", s |-> <<>>, kids |-> members]

ParseFail == [ok |-> FALSE, val |-> JNull, next |-> 0]

ParseOk(v, n) == [ok |-> TRUE, val |-> v, next |-> n]

CtrlBackspace == "U+0008"

CtrlFormFeed == "U+000C"

OtherCodePoint == "U+XXXX"

ControlSet == {"\n", "\t", "\r", CtrlBackspace, CtrlFormFeed}

IsControl(c) == c \in ControlSet

HexSet == DigitSet \cup {"a","b","c","d","e","f","A","B","C","D","E","F"}

IsHex(c) == c \in HexSet

\* WHITESPACE of json.decoder
JsonWsSet == {" ", "\t", "\n", "\r"}

IsJsonWs(c) == c \in JsonWsSet

SkipWs(s, i) == SkipWhile(s, i, IsJsonWs)

\* BACKSLASH table of json.decoder
SimpleEscapeSet == {"\"", "\\", "/", "b", "f", "n", "r", "t"}

IsSimpleEscape(e) == e \in SimpleEscapeSet

UnescapeChar(e) ==
    CASE e = "b" -> CtrlBackspace
      [] e = "f" -> CtrlFormFeed
      [] e = "n" -> "\n"
      [] e = "r" -> "\r"
      [] e = "t" -> "\t"
      [] OTHER   -> e

\* the character of a \uXXXX escape; the model names the code points of
\* its own alphabet and folds every other one into OtherCodePoint
CodePointChar(h) ==
    LET l == [k \in 1..4 |-> ToLower(h[k])]
    IN  CASE l = <<"0","0","e","9">> -> EAcute
          [] l = <<"0","0","c","9">> -> EAcuteUpper
          [] l = <<"0","0","0","8">> -> CtrlBackspace
          [] l = <<"0","0","0","c">> -> CtrlFormFeed
          [] l = <<"0","0","0","a">> -> "\n"
          [] l = <<"0","0","0","d">> -> "\r"
          [] l = <<"0","0","0","9">> -> "\t"
          [] OTHER -> OtherCodePoint

\* is the character at p taken by a backslash that starts an escape
\* (the string's text begins at i)
RECURSIVE IsEscaped(_, _, _)
IsEscaped(s, i, p) == p > i /\ s[p - 1] = "\\" /\ ~ IsEscaped(s, i, p - 1)

\* scanstring (strict): the text of a string whose opening quote is before i.
\* The closing quote is the first quote that no backslash escapes; the text
\* before it must consist of plain characters and well-formed escapes.
ScanString(s, i, acc) ==
    LET n       == Len(s)
        isStart(p) == s[p] = "\\" /\ ~ IsEscaped(s, i, p)
        isHexOfU(p) == \E k \in 2..5 : /\ p - k >= i
                                        /\ s[p - k] = "\\"
                                        /\ s[p - k + 1] = "u"
                                        /\ isStart(p - k)
        okAt(p) ==
            IF isStart(p)
            THEN \/ IsSimpleEscape(s[p + 1])
                 \/ /\ s[p + 1] = "u"
                    /\ p + 5 <= n
                    /\ \A k \in (p + 2)..(p + 5) : IsHex(s[k])
            ELSE IF IsEscaped(s, i, p) \/ isHexOfU(p) THEN TRUE
            ELSE ~ IsControl(s[p])
        charAt(p) ==
            IF isStart(p)
            THEN IF s[p + 1] = "u" THEN <<CodePointChar(SubSeq(s, p + 2, p + 5))>>
                 ELSE <<UnescapeChar(s[p + 1])>>
            ELSE IF IsEscaped(s, i, p) \/ isHexOfU(p) THEN <<>>
            ELSE <<s[p]>>
    IN  Force(FirstTrue([p \in 1..n |-> s[p] = "\"" /\ ~ IsEscaped(s, i, p)], i, n),
              LAMBDA close :
          IF close = 0 THEN ParseFail
          ELSE IF \E p \in i..(close - 1) : ~ okAt(p) THEN ParseFail
          ELSE ParseOk(JStr(acc \o ConcatRange([p \in i..(close - 1) |-> charAt(p)],
                                           i, close - 1)),
                       close + 1))

SkipDigits(s, i) == SkipWhile(s, i, IsDigit)

\* NUMBER_RE of json.scanner, (-?(?:0|[1-9]\d*))(\.\d+)?([eE][-+]?\d+)?:
\* the index after the match at i, or 0 when there is none
NumberEnd(s, i) ==
    Force(IF i <= Len(s) /\ s[i] = "-" THEN i + 1 ELSE i, LAMBDA a :
    Force(IF a <= Len(s) /\ s[a] = "0" THEN a + 1
          ELSE IF a <= Len(s) /\ IsDigit(s[a]) THEN SkipDigits(s, a)
          ELSE 0, LAMBDA b :
    Force(IF b # 0 /\ b + 1 <= Len(s) /\ s[b] = "." /\ IsDigit(s[b + 1])
          THEN SkipDigits(s, b + 1) ELSE b, LAMBDA c :
      IF c # 0 /\ c <= Len(s) /\ s[c] \in {"e", "E"}
      THEN Force(IF c + 1 <= Len(s) /\ s[c + 1] \in {"+", "-"} THEN c + 2 ELSE c + 1,
                 LAMBDA g :
             IF g <= Len(s) /\ IsDigit(s[g]) THEN SkipDigits(s, g) ELSE c)
      ELSE c)))

\* _scan_once, JSONObject and JSONArray of json.scanner / json.decoder
RECURSIVE ScanOnce(_, _), ScanMembers(_, _, _), ScanItems(_, _, _)
ScanOnce(s, i) ==
    IF i > Len(s) THEN ParseFail
    ELSE IF s[i] = "\"" THEN ScanString(s, i + 1, <<>>)
    ELSE IF s[i] = "{"
         THEN Force(SkipWs(s, i + 1), LAMBDA j :
                IF j <= Len(s) /\ s[j] = "}" THEN ParseOk(JObj(<<>>), j + 1)
                ELSE ScanMembers(s, j, <<>>))
    ELSE IF s[i] = "["
         THEN Force(SkipWs(s, i + 1), LAMBDA j :
                IF j <= Len(s) /\ s[j] = "]" THEN ParseOk(JArr(<<>>), j + 1)
                ELSE ScanItems(s, j, <<>>))
    ELSE IF StartsWithAt(s, i, <<"n","u","l","l">>) THEN ParseOk(JNull, i + 4)
    ELSE IF StartsWithAt(s, i, <<"t","r","u","e">>) THEN ParseOk(JBool(TRUE), i + 4)
    ELSE IF StartsWithAt(s, i, <<"f","a","l","s","e">>) THEN ParseOk(JBool(FALSE), i + 5)
    ELSE Force(NumberEnd(s, i), LAMBDA e :
           IF e # 0 THEN ParseOk(JNum(SubSeq(s, i, e - 1)), e)
           ELSE IF StartsWithAt(s, i, <<"N","a","N">>)
                THEN ParseOk(JNum(<<"N","a","N">>), i + 3)
           ELSE IF StartsWithAt(s, i, <<"I","n","f","i","n","i","t","y">>)
                THEN ParseOk(JNum(<<"I","n","f","i","n","i","t","y">>), i + 8)
           ELSE IF StartsWithAt(s, i, <<"-","I","n","f","i","n","i","t","y">>)
                THEN ParseOk(JNum(<<"-","I","n","f","i","n","i","t","y">>), i + 9)
           ELSE ParseFail)

\* what follows a member or an item that ends before e: the closing bracket
\* ends the container, a comma leads to the next member or item
AfterValue(s, e, closing, done, Continue(_)) ==
    IF e > Len(s) THEN ParseFail
    ELSE IF s[e] = closing THEN ParseOk(done, e + 1)
    ELSE IF s[e] = "," THEN Force(SkipWs(s, e + 1), LAMBDA j : Continue(j))
    ELSE ParseFail

\* the members of an object from the quote of the next key at i
ScanMembers(s, i, acc) ==
    IF ~ (i <= Len(s) /\ s[i] = "\"") THEN ParseFail
    ELSE Force(ScanString(s, i + 1, <<>>), LAMBDA key :
           IF ~ key.ok THEN ParseFail
           ELSE Force(SkipWs(s, key.next), LAMBDA c :
                  IF ~ (c <= Len(s) /\ s[c] = ":") THEN ParseFail
                  ELSE Force(SkipWs(s, c + 1), LAMBDA b :
                       Force(ScanOnce(s, b), LAMBDA v :
                         IF ~ v.ok THEN ParseFail
                         ELSE Force(Append(acc, [k |-> key.val.s, v |-> v.val]),
                                    LAMBDA acc2 :
                              Force(SkipWs(s, v.next), LAMBDA e :
                                AfterValue(s, e, "}", JObj(acc2),
                                           LAMBDA j : ScanMembers(s, j, acc2))))))))

\* the items of an array from the first character of the next item at i
ScanItems(s, i, acc) ==
    Force(ScanOnce(s, i), LAMBDA v :
      IF ~ v.ok THEN ParseFail
      ELSE Force(Append(acc, [k |-> <<>>, v |-> v.val]), LAMBDA acc2 :
           Force(SkipWs(s, v.next), LAMBDA e :
             AfterValue(s, e, "]", JArr(acc2),
                        LAMBDA j : ScanItems(s, j, acc2)))))

\* json.loads: one value, surrounded by whitespace only; ok = FALSE stands
\* for JSONDecodeError
json_loads(s) ==
    Force(SkipWs(s, 1), LAMBDA b :
      Force(ScanOnce(s, b), LAMBDA v :
        IF v.ok /\ SkipWs(s, v.next) > Len(s) THEN v ELSE ParseFail))

\* ------------------------------------------------------------------------
\* json.dumps of a dict of strings
\* ------------------------------------------------------------------------
\* Variant of EscapeChar: the backslash is written as it is
EscapeCharKeepsBackslash(c) ==
    CASE c = "\""          -> <<"\\", "\"">>
      [] c = "\n"          -> <<"\\", "n">>
      [] c = "\r"          -> <<"\\", "r">>
      [] c = "\t"          -> <<"\\", "t">>
      [] c = EAcute        -> <<"\\", "u", "0", "0", "e", "9">>
      [] c = EAcuteUpper   -> <<"\\", "u", "0", "0", "c", "9">>
      [] OTHER             -> <<c>>

\* ESCAPE_ASCII of json.encoder (ensure_ascii=True)
EscapeChar(c) ==
    CASE c = "\""          -> <<"\\", "\"">>
      [] c = "\\"          -> <<"\\", "\\">>
      [] c = "\n"          -> <<"\\", "n">>
      [] c = "\r"          -> <<"\\", "r">>
      [] c = "\t"          -> <<"\\", "t">>
      [] c = CtrlBackspace -> <<"\\", "b">>
      [] c = CtrlFormFeed  -> <<"\\", "f">>
      [] c = EAcute        -> <<"\\", "u", "0", "0", "e", "9">>
      [] c = EAcuteUpper   -> <<"\\", "u", "0", "0", "c", "9">>
      [] OTHER             -> <<c>>

DumpsStr(str) ==
    <<"\"">> \o Concat([k \in 1..Len(str) |-> EscapeChar(str[k])]) \o <<"\"">>

\* json.dumps({k1: v1, ...}) with the default separators ", " and ": "
RECURSIVE DumpsMembers(_)
DumpsMembers(ms) ==
    IF ms = <<>> THEN <<>>
    ELSE DumpsStr(ms[1].k) \o <<":", " ">> \o DumpsStr(ms[1].v)
         \o (IF Len(ms) > 1 THEN <<",", " ">> ELSE <<>>)
         \o DumpsMembers(Tail(ms))

json_dumps(ms) == <<"{">> \o DumpsMembers(ms) \o <<"}">>

\* ------------------------------------------------------------------------
\* _coerce_to_fields
\* ------------------------------------------------------------------------
\* Variant of DictGet: a null value is replaced by the default as well
\* (data.get(key) or default)
DictGetOrDefault(obj, key, default) ==
    Force(LastTrue([i \in 1..Len(obj.kids) |-> obj.kids[i].k = key], 1, Len(obj.kids)),
          LAMBDA i : IF i = 0 \/ obj.kids[i].v.t = "null" THEN default
                     ELSE obj.kids[i].v)

\* dict.get(key, default): the value of the last member with that key
DictGet(obj, key, default) ==
    Force(LastTrue([i \in 1..Len(obj.kids) |-> obj.kids[i].k = key], 1, Len(obj.kids)),
          LAMBDA i : IF i = 0 THEN default ELSE obj.kids[i].v)

Fields(su, rc, re, ca, se) ==
    [summary |-> su, root_cause |-> rc, recommendation |-> re,
     category |-> ca, severity |-> se]

\* the record of the except branch
CoerceErrorFields ==
    Fields(JStr(StrInvalidAIOutput), JStr(StrParsingFailed), JStr(StrManualReview),
           JStr(StrError), JStr(StrUnknown))

\* the body of the try block: exc names the exception it raises
\* (json.loads on invalid text, data.get on a value that is no dict)
CoerceTry(js) ==
    Force(json_loads(js), LAMBDA p :
      IF ~ p.ok THEN [exc |-> "JSONDecodeError", fields |-> CoerceErrorFields]
      ELSE IF p.val.t # "obj"
           THEN [exc |-> "AttributeError", fields |-> CoerceErrorFields]
      ELSE [exc |-> "none",
            fields |-> Fields(DictGet(p.val, KeySummary, JStr(StrNA)),
                              DictGet(p.val, KeyRootCause, JStr(StrNA)),
                              DictGet(p.val, KeyRecommendation, JStr(StrNA)),
                              DictGet(p.val, KeyCategory, JStr(StrUncategorized)),
                              DictGet(p.val, KeySeverity, JStr(StrUnknown)))])

\* except Exception: every exception of the try block is caught
CoerceCatches(exc) == TRUE

\* _coerce_to_fields: raised names the exception that escapes ("none" when
\* the function returns), branch the return statement taken
coerce_to_fields(js) ==
    Force(CoerceTry(js), LAMBDA r :
      IF r.exc = "none"
      THEN [raised |-> "none", branch |-> "mapped", fields |-> r.fields]
      ELSE IF CoerceCatches(r.exc)
           THEN [raised |-> "none", branch |-> "error", fields |-> CoerceErrorFields]
      ELSE [raised |-> r.exc, branch |-> "raised", fields |-> CoerceErrorFields])

\* ------------------------------------------------------------------------
\* analyze_text: the pieces of the loop body
\* ------------------------------------------------------------------------
SummaryLimit == 150

\* title = sec["title"] or f"Incident {idx}"
SectionTitle(sec, i) == IF sec.title # <<>> THEN sec.title ELSE StrIncident \o IntToStr(i)

\* the prompt: the f-string around title and body, followed by the
\* corrective instructions appended so far
InitialPrompt(t, b) == [title |-> t, body |-> b, corrective |-> 0]

\* json.dumps({...}) of the else branch of the handler
FallbackMembers(n, b) ==
    << [k |-> KeySummary,        v |-> Prefix(b, SummaryLimit)],
       [k |-> KeyRootCause,      v |-> StrParsingFailedAfter \o IntToStr(n) \o StrAttempts],
       [k |-> KeyRecommendation, v |-> StrManualReviewDot],
       [k |-> KeyCategory,       v |-> StrError],
       [k |-> KeySeverity,       v |-> StrUnknown] >>

FallbackJson(n, b) == json_dumps(FallbackMembers(n, b))

\* Variant of TryBlock: the stripped content is stored without being
\* validated (the json.loads line is missing)
TryBlockUnvalidated(outcome, prev_text) ==
    IF outcome.kind = "error" THEN [exc |-> "APIError", text |-> prev_text]
    ELSE [exc |-> "none", text |-> Strip(outcome.text)]

\* the try block of one attempt: the completion call either raises or
\* returns a message whose stripped content is stored and then validated
TryBlock(outcome, prev_text) ==
    IF outcome.kind = "error" THEN [exc |-> "APIError", text |-> prev_text]
    ELSE Force(Strip(outcome.text), LAMBDA t :
           IF json_loads(t).ok THEN [exc |-> "none", text |-> t]
           ELSE [exc |-> "JSONDecodeError", text |-> t])

\* Variant of AnalyzeCatches: the handler names the decoding error only
\* (except json.JSONDecodeError)
CatchesDecodeErrorOnly(exc) == exc = "JSONDecodeError"

\* except Exception as e
AnalyzeCatches(exc) == TRUE

\* Variant of AttemptsLeft: the last attempt counts as well
\* (if attempt <= retries)
AttemptsLeftOrLast(a, n) == a <= n

\* if attempt < retries
AttemptsLeft(a, n) == a < n

\* Variant of ExceptBlock: the fallback is stored only when no text came
\* back (response_text = response_text or json.dumps(...))
ExceptBlockKeepsText(a, n, text, p, b) ==
    IF AttemptsLeft(a, n)
    THEN [slept |-> TRUE, prompt |-> [p EXCEPT !.corrective = @ + 1], text |-> text]
    ELSE [slept |-> FALSE, prompt |-> p,
          text |-> IF text # <<>> THEN text ELSE FallbackJson(n, b)]

\* the handler: sleep and extend the prompt, or store the fallback
ExceptBlock(a, n, text, p, b) ==
    IF AttemptsLeft(a, n)
    THEN [slept |-> TRUE, prompt |-> [p EXCEPT !.corrective = @ + 1], text |-> text]
    ELSE [slept |-> FALSE, prompt |-> p, text |-> FallbackJson(n, b)]

\* Variant of LoopContinues: the loop runs one iteration too many
\* (range(1, retries + 2))
LoopContinuesOneMore(a, n) == a <= n

\* for attempt in range(1, retries + 1): is there an iteration after a
LoopContinues(a, n) == a + 1 <= n

\* ------------------------------------------------------------------------
\* Inputs
\* ------------------------------------------------------------------------
SeqsUpTo(S, n) == UNION { [1..k -> S] : k \in 0..n }

\* documents of the pipeline: up to MaxDocLines lines joined by line breaks
LineScenario == <<"S","c","e","n","a","r","i","o"," ","1">>

LineBody == <<"d","i","s","k"," ","\"","C",":","\\","\""," ","f","u","l","l"," ",EAcute>>

LineBlank == <<>>

LineLong == [i \in 1..(SummaryLimit + 2) |-> IF i = 3 THEN " " ELSE "x"]

DocLines == {LineScenario, LineBody, LineBlank, LineLong}

RECURSIVE JoinLines(_)
JoinLines(ls) == IF ls = <<>> THEN <<>>
                 ELSE IF Len(ls) = 1 THEN ls[1]
                 ELSE ls[1] \o <<"\n">> \o JoinLines(Tail(ls))

PipelineContents == { JoinLines(ls) : ls \in SeqsUpTo(DocLines, MaxDocLines) }

\* what the completion call can do: raise, or return one of these texts
RespObject == <<" ","{","\"","s","u","m","m","a","r","y","\"",":"," ","\"","x","\"",","," ","\"","s","e","v","e","r","i","t","y","\"",":"," ","\"","H","i","g","h","\"","}","\n">>

RespArray == <<"[","1","]">>

RespText == <<"R","o","o","t"," ","C","a","u","s","e",":"," ","d","i","s","k"," ","f","u","l","l",".">>

CallError == [kind |-> "error", text |-> <<>>]

Outcomes == { [kind |-> "response", text |-> t] : t \in {RespObject, RespArray, RespText} }
            \cup {CallError}

\* ------------------------------------------------------------------------
\* State
\* ------------------------------------------------------------------------
VARIABLES
    pc,             \* position in the code
    content,        \* analyze_text / _split_sections: the input text
    retries,        \* analyze_text: the retries argument
    sections,       \* the list returned by _split_sections
    idx,            \* 1-based index of the current section
    title,          \* title of the current section
    body,           \* body of the current section
    prompt,         \* prompt of the current section
    attempt,        \* loop variable of the retry loop
    response_text,  \* response_text of the current section
    results,        \* the results list
    raised,         \* the exception that left the function, "none" if none
    ret,            \* the returned dict
    outcomes,       \* history: what each attempt of the current section met
    log,            \* history: calls and sleeps of the current section
    ai_json,        \* _coerce_to_fields: the argument
    src,            \* how ai_json was built
    coerced,        \* the results of the applications of _coerce_to_fields
    apc,            \* analyze_file: position in the code
    requests,       \* the number of POST /analyze requests received
    files,          \* table files
    incidents,      \* table incidents
    analyses,       \* table analysis
    new_file,       \* analyze_file: the File instance of the session
    app_sections,   \* analyze_file: sections
    aidx,           \* analyze_file: idx of the loop over sections (0-based)
    inc,            \* analyze_file: the Incident instance of the iteration
    inserted,       \* analyze_file: inserted
    resp,           \* the response of the last POST /analyze
    disturbed       \* history: DELETE /reset ran since the request began

vars == << pc, content, retries, sections, idx, title, body, prompt, attempt,
           response_text, results, raised, ret, outcomes, log, ai_json, src,
           coerced, apc, requests, files, incidents, analyses, new_file,
           app_sections, aidx, inc, inserted, resp, disturbed >>

pipelineVars == << content, retries, sections, idx, title, body, prompt, attempt,
                   response_text, results, raised, ret, outcomes, log >>

coerceVars == << ai_json, src, coerced >>

appVars == << apc, requests, files, incidents, analyses, new_file, app_sections,
              aidx, inc, inserted, resp, disturbed >>

NoSrc == [kind |-> "none", n |-> 0, body |-> <<>>, members |-> <<>>, text |-> <<>>]

NoRet == [status |-> "none", total_incidents |-> 0, analysis |-> <<>>]

PipelineIdle ==
    /\ sections = <<>> /\ idx = 0 /\ title = <<>> /\ body = <<>>
    /\ prompt = InitialPrompt(<<>>, <<>>) /\ attempt = 0
    /\ response_text = <<>> /\ results = <<>> /\ raised = "none"
    /\ ret = NoRet /\ outcomes = <<>> /\ log = <<>>

CoerceIdle == ai_json = <<>> /\ src = NoSrc /\ coerced = <<>>

\* an ORM instance: its primary key, and whether its attributes are expired
\* (every commit of the session expires all its instances)
NoInstance == [id |-> 0, expired |-> FALSE]

NoResp == [status |-> 0, detail |-> "", file_id |-> 0, total_incidents |-> 0,
           inserted |-> <<>>]

AppIdle ==
    /\ apc = "idle" /\ requests = 0
    /\ files = {} /\ incidents = {} /\ analyses = {}
    /\ new_file = NoInstance /\ app_sections = <<>> /\ aidx = 0 /\ inc = NoInstance
    /\ inserted = <<>> /\ resp = NoResp /\ disturbed = FALSE

\* ------------------------------------------------------------------------
\* analyze_text
\* ------------------------------------------------------------------------
Init ==
    /\ pc = "start"
    /\ content \in PipelineContents
    /\ retries \in 0..MaxRetries
    /\ PipelineIdle
    /\ CoerceIdle
    /\ AppIdle

\* sections = _split_sections(content); results = []
SplitStep ==
    /\ pc = "start"
    /\ sections' = split_sections(content)
    /\ results' = <<>>
    /\ idx' = 1
    /\ pc' = "loop"
    /\ UNCHANGED << content, retries, title, body, prompt, attempt, response_text,
                    raised, ret, outcomes, log >>
    /\ UNCHANGED coerceVars
    /\ UNCHANGED appVars

\* the head of the for loop over the sections: title, body, prompt,
\* response_text = "", and the entry of the retry loop
BeginSection ==
    /\ pc = "loop"
    /\ idx <= Len(sections)
    /\ title' = SectionTitle(sections[idx], idx)
    /\ body' = sections[idx].body
    /\ prompt' = InitialPrompt(title', body')
    /\ response_text' = <<>>
    /\ attempt' = 1
    /\ outcomes' = <<>>
    /\ log' = <<>>
    /\ pc' = IF 1 <= retries THEN "attempt" ELSE "append"
    /\ UNCHANGED << content, retries, sections, idx, results, raised, ret >>
    /\ UNCHANGED coerceVars
    /\ UNCHANGED appVars

\* one iteration of the retry loop, from the completion call to the end of
\* the handler
AttemptWith(outcome) ==
    LET t    == TryBlock(outcome, response_text)
        call == [ev |-> "call", prompt |-> prompt]
        h    == ExceptBlock(attempt, retries, t.text, prompt, body)
    IN  /\ pc = "attempt"
        /\ outcomes' = Append(outcomes,
                               [kind |-> IF t.exc = "none" THEN "valid"
                                         ELSE IF outcome.kind = "error" THEN "error"
                                         ELSE "invalid",
                                text |-> IF outcome.kind = "error" THEN <<>> ELSE t.text])
        /\ IF t.exc = "none"
           THEN \* json.loads accepted the text: break
                /\ response_text' = t.text
                /\ log' = Append(log, call)
                /\ pc' = "append"
                /\ UNCHANGED << prompt, attempt, raised >>
           ELSE IF ~ AnalyzeCatches(t.exc)
           THEN /\ raised' = t.exc
                /\ response_text' = t.text
                /\ log' = Append(log, call)
                /\ pc' = "raised"
                /\ UNCHANGED << prompt, attempt >>
           ELSE /\ response_text' = h.text
                /\ prompt' = h.prompt
                /\ log' = IF h.slept
                          THEN log \o <<call, [ev |-> "sleep", prompt |-> prompt]>>
                          ELSE Append(log, call)
                /\ IF LoopContinues(attempt, retries)
                   THEN attempt' = attempt + 1 /\ pc' = "attempt"
                   ELSE attempt' = attempt /\ pc' = "append"
                /\ UNCHANGED raised
        /\ UNCHANGED << content, retries, sections, idx, title, body, results, ret >>
        /\ UNCHANGED coerceVars
        /\ UNCHANGED appVars

\* the completion call returns a message
AttemptResponse == \E o \in Outcomes : o.kind = "response" /\ AttemptWith(o)

\* the completion call raises (timeout, auth, rate limit)
AttemptCallError == \E o \in {CallError} : AttemptWith(o)

\* results.append({"case": title, "analysis": response_text})
AppendResult ==
    /\ pc = "append"
    /\ results' = Append(results, [case |-> title, analysis |-> response_text])
    /\ idx' = idx + 1
    /\ pc' = "loop"
    /\ UNCHANGED << content, retries, sections, title, body, prompt, attempt,
                    response_text, raised, ret, outcomes, log >>
    /\ UNCHANGED coerceVars
    /\ UNCHANGED appVars

\* return {"status": "success", "total_incidents": ..., "analysis": results}
Return ==
    /\ pc = "loop"
    /\ idx > Len(sections)
    /\ ret' = [status |-> "success", total_incidents |-> Len(results),
               analysis |-> results]
    /\ pc' = "done"
    /\ UNCHANGED << content, retries, sections, idx, title, body, prompt, attempt,
                    response_text, results, raised, outcomes, log >>
    /\ UNCHANGED coerceVars
    /\ UNCHANGED appVars

Next ==
    \/ SplitStep
    \/ BeginSection
    \/ AttemptResponse
    \/ AttemptCallError
    \/ AppendResult
    \/ Return

Spec == Init /\ [][Next]_vars

\* ------------------------------------------------------------------------
\* _split_sections applied to texts put together from pieces
\* ------------------------------------------------------------------------
SplitPieces == { <<"S","c","e","n","a","r","i","o">>, <<"t","e","s","t"," ","C","a","s","e">>, <<"1">>, <<" ">>, <<"\n">>, <<"a","b">>, <<"x"," ","y",".">> }

SplitInputs == { Concat(ps) : ps \in SeqsUpTo(SplitPieces, MaxPieces) }

InitSplit ==
    /\ pc = "split"
    /\ content \in SplitInputs
    /\ retries = 0
    /\ PipelineIdle
    /\ CoerceIdle
    /\ AppIdle

\* sections = _split_sections(content)
ApplySplit ==
    /\ pc = "split"
    /\ sections' = split_sections(content)
    /\ pc' = "split_done"
    /\ UNCHANGED << content, retries, idx, title, body, prompt, attempt,
                    response_text, results, raised, ret, outcomes, log >>
    /\ UNCHANGED coerceVars
    /\ UNCHANGED appVars

NextSplit == ApplySplit

SpecSplit == InitSplit /\ [][NextSplit]_vars

\* ------------------------------------------------------------------------
\* _coerce_to_fields applied to model outputs of every shape
\* ------------------------------------------------------------------------
FieldKeys == <<KeySummary, KeyRootCause, KeyRecommendation, KeyCategory, KeySeverity>>

FieldNames == <<"summary", "root_cause", "recommendation", "category", "severity">>

StrHigh == <<"H","i","g","h">>

\* the values a key of a JSON object is given: the JSON text and its value
ValueChoices ==
    << [text |-> <<"\"","x","\"">>,    v |-> JStr(<<"x">>)],
       [text |-> <<"\"","H","i","g","h","\"">>, v |-> JStr(StrHigh)],
       [text |-> <<"n","u","l","l">>, v |-> JNull] >>

OtherMember == [k |-> <<"o","t","h","e","r">>, v |-> JNum(<<"7">>), text |-> <<"7">>]

\* the members of the object in which key i has the value choice[i]
\* (0: the key is absent), after the unknown key when extra holds
MembersOf(choice, extra) ==
    (IF extra THEN <<OtherMember>> ELSE <<>>)
    \o Concat([i \in 1..5 |->
                 IF choice[i] = 0 THEN <<>>
                 ELSE << [k    |-> FieldKeys[i],
                          v    |-> ValueChoices[choice[i]].v,
                          text |-> ValueChoices[choice[i]].text] >>])

\* the JSON text of an object with these members
ObjectText(ms) ==
    <<"{">>
    \o Concat([i \in 1..Len(ms) |->
                 (IF i = 1 THEN <<>> ELSE <<",", " ">>)
                 \o DumpsStr(ms[i].k) \o <<":", " ">> \o ms[i].text])
    \o <<"}">>

ObjectInputs ==
    { [kind |-> "object", n |-> 0, body |-> <<>>, members |-> MembersOf(c, e),
       text |-> ObjectText(MembersOf(c, e))] :
        c \in [1..5 -> 0..Len(ValueChoices)], e \in BOOLEAN }

\* free text with labelled fields, "<Label>: <value>"
LabelOf(i) ==
    CASE i = 1 -> <<"S","u","m","m","a","r","y">>
      [] i = 2 -> <<"R","o","o","t"," ","C","a","u","s","e">>
      [] i = 3 -> <<"R","e","c","o","m","m","e","n","d","a","t","i","o","n">>
      [] i = 4 -> <<"C","a","t","e","g","o","r","y">>
      [] i = 5 -> <<"S","e","v","e","r","i","t","y">>

LabelValue(i) ==
    CASE i = 1 -> <<"c","r","a","s","h",".">>
      [] i = 2 -> <<"d","i","s","k"," ","f","u","l","l",".">>
      [] i = 3 -> <<"f","r","e","e"," ","s","p","a","c","e",".">>
      [] i = 4 -> <<"S","t","o","r","a","g","e",".">>
      [] i = 5 -> <<"H","i","g","h",".">>

\* the labelled fields in the order Root Cause, Summary, Recommendation,
\* Category, Severity
LabelOrder == <<2, 1, 3, 4, 5>>

LabelledMembers(S) ==
    Concat([j \in 1..5 |->
              IF LabelOrder[j] \in S
              THEN << [k    |-> FieldKeys[LabelOrder[j]],
                       v    |-> JStr(LabelValue(LabelOrder[j])),
                       text |-> LabelOf(LabelOrder[j]) \o <<":", " ">>
                                \o LabelValue(LabelOrder[j])] >>
              ELSE <<>>])

LabelledText(ms) ==
    Concat([i \in 1..Len(ms) |-> (IF i = 1 THEN <<>> ELSE <<" ">>) \o ms[i].text])

LabelledInputs ==
    { [kind |-> "labelled", n |-> 0, body |-> <<>>, members |-> LabelledMembers(S),
       text |-> LabelledText(LabelledMembers(S))] :
        S \in (SUBSET (1..5)) \ {{}} }

\* text that is neither JSON nor labelled
PlainTexts == { <<>>, <<"d","i","s","k"," ","f","u","l","l">>, <<"{">>, <<"{","\"","s","u","m","m","a","r","y","\"",":"," ","\"","x","\"">>, <<"[","1",",","]">>, <<"{","\"","s","u","m","m","a","r","y","\"",":"," ","\"","x","\"",",","}">> }

PlainInputs ==
    { [kind |-> "plain", n |-> 0, body |-> <<>>, members |-> <<>>, text |-> t] :
        t \in PlainTexts }

\* JSON that is no object
OtherJsonTexts == { <<"[","]">>, RespArray, <<"1","2">>, <<"n","u","l","l">>, <<"\"","x","\"">>,
                    <<"t","r","u","e">>, <<"N","a","N">> }

OtherJsonInputs ==
    { [kind |-> "other_json", n |-> 0, body |-> <<>>, members |-> <<>>, text |-> t] :
        t \in OtherJsonTexts }

\* the fallback texts of analyze_text: every retries >= 1 and every body
\* that _split_sections makes of a document line
FallbackBodies == { clean_text(l) : l \in DocLines }

FallbackInputs ==
    { [kind |-> "fallback", n |-> n, body |-> b,
       members |-> [i \in 1..5 |-> [k    |-> FallbackMembers(n, b)[i].k,
                                    v    |-> JStr(FallbackMembers(n, b)[i].v),
                                    text |-> <<>>]],
       text |-> FallbackJson(n, b)] :
        n \in (1..MaxRetries) \cup {10, 25}, b \in FallbackBodies }

CoerceInputs ==
    ObjectInputs \cup LabelledInputs \cup PlainInputs \cup OtherJsonInputs
    \cup FallbackInputs

InitCoerce ==
    /\ pc = "coerce"
    /\ src \in CoerceInputs
    /\ ai_json = src.text
    /\ coerced = <<>>
    /\ content = <<>>
    /\ retries = 0
    /\ PipelineIdle
    /\ AppIdle

\* fields = _coerce_to_fields(ai_text), up to twice on the same text
ApplyCoerce ==
    /\ pc = "coerce"
    /\ Len(coerced) < 2
    /\ coerced' = Append(coerced, coerce_to_fields(ai_json))
    /\ pc' = IF coerced'[Len(coerced')].raised # "none" THEN "raised"
             ELSE IF Len(coerced') = 2 THEN "coerce_done" ELSE "coerce"
    /\ UNCHANGED << ai_json, src >>
    /\ UNCHANGED pipelineVars
    /\ UNCHANGED appVars

NextCoerce == ApplyCoerce

SpecCoerce == InitCoerce /\ [][NextCoerce]_vars

\* ------------------------------------------------------------------------
\* analyze_text on short documents: the retry loop of one or two sections
\* ------------------------------------------------------------------------
RetryContents == { JoinLines(ls) : ls \in SeqsUpTo({LineScenario, LineBody}, MaxRetryLines) }

InitRetry ==
    /\ pc = "start"
    /\ content \in RetryContents
    /\ retries \in 0..MaxRetries
    /\ PipelineIdle
    /\ CoerceIdle
    /\ AppIdle

SpecRetry == InitRetry /\ [][Next]_vars

\* ------------------------------------------------------------------------
\* app.py: POST /analyze and DELETE /reset on the tables of models.py
\* ------------------------------------------------------------------------
\* analyze_text(content): retries keeps its default
DefaultRetries == 2

\* the uploaded texts: up to MaxAppLines lines
AppContents ==
    { JoinLines(ls) : ls \in SeqsUpTo({LineScenario, LineBody, LineBlank}, MaxAppLines) }

\* the primary key of an inserted row: Integer primary_key on SQLite is the
\* rowid, one more than the largest in the table
NextId(table) ==
    IF table = {} THEN 1
    ELSE 1 + (CHOOSE m \in { r.id : r \in table } : \A r \in table : r.id <= m)

RowExists(table, id) == \E r \in table : r.id = id

\* reading an attribute of an instance: an expired instance is loaded from
\* its row first, which fails when the row is gone
CanRead(obj, table) == ~ obj.expired \/ RowExists(table, obj.id)

Http(status, detail) == [NoResp EXCEPT !.status = status, !.detail = detail]

\* the statement raises: the request ends with a server error
Fails(detail) ==
    /\ resp' = Http(500, detail)
    /\ apc' = "responded"

\* ai_text = ai_list[idx]["analysis"] if idx < len(ai_list) else "{}"
AiText(ai_list, i) ==
    IF i < Len(ai_list) THEN ai_list[i + 1].analysis ELSE <<"{", "}">>

\* content is read and checked: HTTPException(400) when it is blank
ReadUpload ==
    /\ apc \in {"idle", "responded"}
    /\ requests < MaxRequests
    /\ requests' = requests + 1
    /\ content' \in AppContents
    /\ disturbed' = FALSE
    /\ new_file' = NoInstance /\ inc' = NoInstance
    /\ app_sections' = <<>> /\ aidx' = 0 /\ inserted' = <<>>
    /\ ret' = NoRet
    /\ IF Strip(content') = <<>>
       THEN resp' = Http(400, "File is empty or unreadable.") /\ apc' = "responded"
       ELSE resp' = NoResp /\ apc' = "add_file"
    /\ UNCHANGED << pc, retries, sections, idx, title, body, prompt, attempt,
                    response_text, results, raised, outcomes, log >>
    /\ UNCHANGED << files, incidents, analyses >>
    /\ UNCHANGED coerceVars

\* new_file = models.File(...); db.add(new_file); db.commit()
CommitFile ==
    /\ apc = "add_file"
    /\ files' = files \cup {[id |-> NextId(files)]}
    /\ new_file' = [id |-> NextId(files), expired |-> TRUE]
    /\ apc' = "refresh_file"
    /\ UNCHANGED << requests, incidents, analyses, app_sections, aidx, inc,
                    inserted, resp, disturbed >>
    /\ UNCHANGED << pc, pipelineVars, coerceVars >>

\* db.refresh(new_file)
RefreshFile ==
    /\ apc = "refresh_file"
    /\ IF RowExists(files, new_file.id)
       THEN /\ new_file' = [new_file EXCEPT !.expired = FALSE]
            /\ apc' = "analyze"
            /\ UNCHANGED resp
       ELSE /\ Fails("InvalidRequestError")
            /\ UNCHANGED new_file
    /\ UNCHANGED << requests, files, incidents, analyses, app_sections, aidx, inc,
                    inserted, disturbed >>
    /\ UNCHANGED << pc, pipelineVars, coerceVars >>

\* ai_result = analyze_text(content): the call enters analyze_text
CallAnalyzeText ==
    /\ apc = "analyze"
    /\ pc' = "start"
    /\ retries' = DefaultRetries
    /\ apc' = "analyzing"
    /\ UNCHANGED << content, sections, idx, title, body, prompt, attempt,
                    response_text, results, raised, ret, outcomes, log >>
    /\ UNCHANGED << requests, files, incidents, analyses, new_file, app_sections,
                    aidx, inc, inserted, resp, disturbed >>
    /\ UNCHANGED coerceVars

\* analyze_text has returned: ai_list = ai_result.get("analysis", []);
\* sections = _split_sections(content); inserted = []
TakeAnalysis ==
    /\ apc = "analyzing"
    /\ pc = "done"
    /\ app_sections' = split_sections(content)
    /\ aidx' = 0
    /\ inserted' = <<>>
    /\ apc' = "loop"
    /\ pc' = "idle"
    /\ sections' = <<>> /\ idx' = 0 /\ title' = <<>> /\ body' = <<>>
    /\ prompt' = InitialPrompt(<<>>, <<>>) /\ attempt' = 0
    /\ response_text' = <<>> /\ results' = <<>> /\ outcomes' = <<>> /\ log' = <<>>
    /\ UNCHANGED << content, retries, raised, ret >>
    /\ UNCHANGED << requests, files, incidents, analyses, new_file, inc, resp,
                    disturbed >>
    /\ UNCHANGED coerceVars

\* the head of the loop and models.Incident(file_id=new_file.id, ...)
NewIncident ==
    /\ apc = "loop"
    /\ aidx < Len(app_sections)
    /\ IF CanRead(new_file, files)
       THEN /\ new_file' = [new_file EXCEPT !.expired = FALSE]
            /\ apc' = "add_incident"
            /\ UNCHANGED resp
       ELSE /\ Fails("ObjectDeletedError")
            /\ UNCHANGED new_file
    /\ UNCHANGED << requests, files, incidents, analyses, app_sections, aidx, inc,
                    inserted, disturbed >>
    /\ UNCHANGED << pc, pipelineVars, coerceVars >>

\* db.add(inc); db.commit(): no foreign key is enforced by SQLite
CommitIncident ==
    /\ apc = "add_incident"
    /\ incidents' = incidents \cup
         {[id        |-> NextId(incidents),
           file_id   |-> new_file.id,
           case_name |-> app_sections[aidx + 1].title,
           body      |-> app_sections[aidx + 1].body]}
    /\ inc' = [id |-> NextId(incidents), expired |-> TRUE]
    /\ new_file' = [new_file EXCEPT !.expired = TRUE]
    /\ apc' = "refresh_incident"
    /\ UNCHANGED << requests, files, analyses, app_sections, aidx, inserted, resp,
                    disturbed >>
    /\ UNCHANGED << pc, pipelineVars, coerceVars >>

\* db.refresh(inc)
RefreshIncident ==
    /\ apc = "refresh_incident"
    /\ IF RowExists(incidents, inc.id)
       THEN /\ inc' = [inc EXCEPT !.expired = FALSE]
            /\ apc' = "add_analysis"
            /\ UNCHANGED resp
       ELSE /\ Fails("InvalidRequestError")
            /\ UNCHANGED inc
    /\ UNCHANGED << requests, files, incidents, analyses, new_file, app_sections,
                    aidx, inserted, disturbed >>
    /\ UNCHANGED << pc, pipelineVars, coerceVars >>

\* fields = _coerce_to_fields(ai_text); analysis = models.Analysis(
\* incident_id=inc.id, ...); db.add(analysis); db.commit()
CommitAnalysis ==
    /\ apc = "add_analysis"
    /\ analyses' = analyses \cup
         {[id          |-> NextId(analyses),
           incident_id |-> inc.id,
           fields      |-> coerce_to_fields(AiText(ret.analysis, aidx)).fields]}
    /\ inc' = [inc EXCEPT !.expired = TRUE]
    /\ new_file' = [new_file EXCEPT !.expired = TRUE]
    /\ apc' = "record"
    /\ UNCHANGED << requests, files, incidents, app_sections, aidx, inserted, resp,
                    disturbed >>
    /\ UNCHANGED << pc, pipelineVars, coerceVars >>

\* inserted.append({"incident_id": inc.id, "case": title})
RecordInserted ==
    /\ apc = "record"
    /\ IF CanRead(inc, incidents)
       THEN /\ inserted' = Append(inserted,
                                  [incident_id |-> inc.id,
                                   case        |-> app_sections[aidx + 1].title])
            /\ inc' = [inc EXCEPT !.expired = FALSE]
            /\ aidx' = aidx + 1
            /\ apc' = "loop"
            /\ UNCHANGED resp
       ELSE /\ Fails("ObjectDeletedError")
            /\ UNCHANGED << inserted, inc, aidx >>
    /\ UNCHANGED << requests, files, incidents, analyses, new_file, app_sections,
                    disturbed >>
    /\ UNCHANGED << pc, pipelineVars, coerceVars >>

\* return {"status": "success", "file": {"id": new_file.id, ...}, ...}
Respond ==
    /\ apc = "loop"
    /\ aidx = Len(app_sections)
    /\ IF CanRead(new_file, files)
       THEN /\ resp' = [status |-> 200, detail |-> "success", file_id |-> new_file.id,
                        total_incidents |-> Len(inserted), inserted |-> inserted]
            /\ new_file' = [new_file EXCEPT !.expired = FALSE]
            /\ apc' = "responded"
       ELSE /\ Fails("ObjectDeletedError")
            /\ UNCHANGED new_file
    /\ UNCHANGED << requests, files, incidents, analyses, app_sections, aidx, inc,
                    inserted, disturbed >>
    /\ UNCHANGED << pc, pipelineVars, coerceVars >>

\* DELETE /reset: the three deletes and the commit, one transaction
reset_database ==
    /\ analyses' = {}
    /\ incidents' = {}
    /\ files' = {}
    /\ disturbed' = (disturbed \/ apc # "idle")
    /\ UNCHANGED << apc, requests, new_file, app_sections, aidx, inc, inserted, resp >>
    /\ UNCHANGED << pc, pipelineVars, coerceVars >>

InitApp ==
    /\ pc = "idle"
    /\ content = <<>>
    /\ retries = 0
    /\ PipelineIdle
    /\ CoerceIdle
    /\ AppIdle

analyze_file ==
    \/ ReadUpload
    \/ CommitFile
    \/ RefreshFile
    \/ CallAnalyzeText
    \/ TakeAnalysis
    \/ NewIncident
    \/ CommitIncident
    \/ RefreshIncident
    \/ CommitAnalysis
    \/ RecordInserted
    \/ Respond

NextApp ==
    \/ analyze_file
    \/ Next
    \/ reset_database

SpecApp == InitApp /\ [][NextApp]_vars

\* ========================================================================
\* Properties
\* ========================================================================
IsCall(e) == e.ev = "call"

IsSleep(e) == e.ev = "sleep"

IsFailure(o) == o.kind \in {"invalid", "error"}

AllFailed == \A i \in 1..Len(outcomes) : IsFailure(outcomes[i])

\* the section idx - 1 has been appended to results, and title, body,
\* outcomes and log still describe it
SectionDone == pc \in {"loop", "done"} /\ idx >= 2

\* the fields of the fallback record for the current section
FallbackRecord ==
    Fields(JStr(SubSeq(body, 1, IF Len(body) < SummaryLimit THEN Len(body)
                                 ELSE SummaryLimit)),
           JStr(StrParsingFailedAfter \o IntToStr(retries) \o StrAttempts),
           JStr(StrManualReviewDot), JStr(StrError), JStr(StrUnknown))

\* the JSON text js is an object of exactly the five fields of rec
IsRecordText(js, rec) ==
    LET p == json_loads(js)
    IN  /\ p.ok
        /\ p.val.t = "obj"
        /\ Len(p.val.kids) = 5
        /\ \A i \in 1..5 : \E m \in 1..5 : /\ p.val.kids[m].k = FieldKeys[i]
                                           /\ p.val.kids[m].v = rec[FieldNames[i]]

\* C1: with retries = N >= 1, a section whose attempts all fail gets exactly
\* N completion calls and the fallback record: root_cause "AI parsing failed
\* after N attempts.", summary the first 150 characters of the body,
\* recommendation "Manual review required.", category "Error", severity
\* "Unknown".
C1_FallbackAfterNFailures ==
    (SectionDone /\ retries >= 1 /\ AllFailed) =>
        /\ Len(SelectSeq(log, IsCall)) = retries
        /\ Len(outcomes) = retries
        /\ IsRecordText(results[idx - 1].analysis, FallbackRecord)

C1_Witness ==
    /\ SectionDone /\ retries >= 2 /\ AllFailed
    /\ Len(body) > SummaryLimit
    /\ \E i \in 1..Len(outcomes) : outcomes[i].kind = "invalid"
    /\ \E i \in 1..Len(outcomes) : outcomes[i].kind = "error"

\* C2: analyze_text never raises, whatever the attempts meet, and returns
\* one result per section of the splitter, in the splitter's order, with
\* total_incidents the number of sections.
C2_OneResultPerSection ==
    /\ raised = "none"
    /\ pc # "raised"
    /\ (pc = "loop" /\ idx = 1) => sections = split_sections(content)
    /\ SectionDone =>
         LET secs == sections
         IN  /\ Len(results) = idx - 1
             /\ idx - 1 <= Len(secs)
             /\ results[idx - 1].case = SectionTitle(secs[idx - 1], idx - 1)
             /\ body = secs[idx - 1].body
             /\ \A i \in 1..Len(log) : log[i].prompt.body = body
    /\ pc = "done" =>
         LET secs == sections
         IN  /\ ret.total_incidents = Len(secs)
             /\ Len(ret.analysis) = Len(secs)
             /\ \A i \in 1..Len(secs) :
                    ret.analysis[i].case = SectionTitle(secs[i], i)

C2_Witness ==
    /\ pc = "done"
    /\ ret.total_incidents = 3
    /\ ret.analysis[1].analysis # ret.analysis[2].analysis
    /\ \E i \in 1..Len(outcomes) : outcomes[i].kind = "error"

\* what the log of a section must be when only success or failure of each
\* attempt counts: attempt k is sent with k - 1 corrective instructions and
\* is followed by a wait exactly when it failed and was not the last one
ExpectedLog ==
    Concat([k \in 1..Len(outcomes) |->
              LET sent == [title |-> title, body |-> body, corrective |-> k - 1]
              IN  <<[ev |-> "call", prompt |-> sent]>>
                  \o (IF IsFailure(outcomes[k]) /\ k < retries
                      THEN <<[ev |-> "sleep", prompt |-> sent]>> ELSE <<>>)])

\* the result of a finished section when only success or failure of each
\* attempt counts: the text of the attempt that succeeded, else the fallback
ExpectedAnalysis ==
    IF outcomes # <<>> /\ ~ IsFailure(outcomes[Len(outcomes)])
    THEN outcomes[Len(outcomes)].text
    ELSE FallbackJson(retries, body)

\* C3: a completion call that raises is treated exactly like a response
\* that is no JSON: the number of attempts, the waits, the prompts sent and
\* the returned result of a section are determined by which attempts failed,
\* not by how they failed.
C3_FailuresIndistinguishable ==
    /\ (pc \in {"attempt", "append"} \/ SectionDone) => log = ExpectedLog
    /\ pc = "attempt" =>
         /\ AllFailed
         /\ Len(outcomes) < retries
         /\ attempt = Len(outcomes) + 1
         /\ prompt.corrective = Len(outcomes)
    /\ ((pc = "append" \/ SectionDone) /\ retries >= 1) =>
         /\ \A k \in 1..(Len(outcomes) - 1) : IsFailure(outcomes[k])
         /\ IsFailure(outcomes[Len(outcomes)]) => Len(outcomes) = retries
         /\ (IF pc = "append" THEN response_text ELSE results[idx - 1].analysis)
                = ExpectedAnalysis

C3_Witness ==
    /\ SectionDone
    /\ Len(outcomes) >= 2
    /\ outcomes[1].kind = "error"
    /\ outcomes[2].kind = "invalid"
    /\ Len(SelectSeq(log, IsSleep)) = 1

\* C4: for every input, the empty string and whitespace-only text included,
\* _split_sections returns at least one section.
C4_SplitNeverEmpty == pc = "split_done" => Len(sections) >= 1

NoHeadingLine(c) ==
    LET lines == SplitLines(c) IN \A k \in 1..Len(lines) : ~ IsHeadingLine(lines[k])

\* C5: an input without a heading line yields exactly one section, titled
\* "Incident 1", whose body is the trimmed input (stated here for the
\* inputs that hold some text).
C5_NoHeadingSingleSection ==
    (pc = "done" /\ NoHeadingLine(content) /\ Strip(content) # <<>>) =>
        /\ Len(sections) = 1
        /\ Len(ret.analysis) = 1
        /\ ret.analysis[1].case = StrIncident \o <<"1">>
        /\ sections[1].body = Strip(content)

\* the indices of the heading lines of a text
HeadingLines(lines) == IndicesOf([k \in 1..Len(lines) |-> IsHeadingLine(lines[k])],
                                 Len(lines))

\* the text between heading line h and the next heading line (or the end)
TextAfter(lines, h) ==
    LET hs   == HeadingLines(lines)
        next == IF \E j \in 1..Len(hs) : hs[j] > h
                THEN CHOOSE x \in Range(hs) : x > h /\ \A y \in Range(hs) : y > h => x <= y
                ELSE Len(lines) + 1
    IN  Strip(JoinLines(SubSeq(lines, h + 1, next - 1)))

\* C6: an input with k >= 1 heading lines, each followed by body text,
\* yields exactly k sections in document order, each with its heading line
\* as title and the text up to the next heading as body, whatever surrounds
\* the headings.
C6_OneSectionPerHeading ==
    LET lines == SplitLines(content)
        hs    == HeadingLines(lines)
    IN  ( /\ pc = "split_done"
          /\ Len(hs) >= 1
          /\ \A j \in 1..Len(hs) : TextAfter(lines, hs[j]) # <<>> ) =>
            /\ Len(sections) = Len(hs)
            /\ \A j \in 1..Len(hs) :
                 j <= Len(sections) =>
                   /\ sections[j].title = Strip(lines[hs[j]])
                   /\ sections[j].body = TextAfter(lines, hs[j])

\* the value the members ms give key i, the sentinel when they give none
Sentinel(i) == IF i = 4 THEN JStr(StrUncategorized)
               ELSE IF i = 5 THEN JStr(StrUnknown) ELSE JStr(StrNA)

GivenOrSentinel(ms, i) ==
    IF \E m \in 1..Len(ms) : ms[m].k = FieldKeys[i]
    THEN ms[CHOOSE m \in 1..Len(ms) : ms[m].k = FieldKeys[i]].v
    ELSE Sentinel(i)

\* C7: on the text of a JSON object, _coerce_to_fields gives each of the
\* five keys its given value when present and its sentinel when absent
\* ("N/A", "N/A", "N/A", "Uncategorized", "Unknown"); the record has exactly
\* the five fields.
C7_ObjectKeysOrSentinels ==
    (src.kind = "object" /\ coerced # <<>>) =>
        /\ coerced[1].raised = "none"
        /\ coerced[1].branch = "mapped"
        /\ DOMAIN coerced[1].fields = Range(FieldNames)
        /\ \A i \in 1..5 :
             coerced[1].fields[FieldNames[i]] = GivenOrSentinel(src.members, i)

C7_Witness ==
    /\ src.kind = "object" /\ coerced # <<>>
    /\ coerced[1].fields.summary = JStr(<<"x">>)
    /\ coerced[1].fields.severity = JStr(StrHigh)
    /\ coerced[1].fields.root_cause = JStr(StrNA)
    /\ coerced[1].fields.recommendation = JStr(StrNA)
    /\ coerced[1].fields.category = JStr(StrUncategorized)

\* C8: on text that is no JSON but holds labelled fields, each labelled
\* field gets the text after its label up to the next label, and every
\* other field its sentinel.
C8_LabelExtraction ==
    (src.kind = "labelled" /\ coerced # <<>>) =>
        \A i \in 1..5 :
            coerced[1].fields[FieldNames[i]] = GivenOrSentinel(src.members, i)

\* C9: _coerce_to_fields never raises, and text that cannot be parsed (and
\* holds no label) comes back as the sentinel defaults, the summary being
\* its sentinel or the text itself.
C9_NeverRaisesSentinels ==
    coerced # <<>> =>
        /\ \A j \in 1..Len(coerced) : coerced[j].raised = "none"
        /\ src.kind = "plain" =>
             /\ coerced[1].fields.summary \in {JStr(StrNA), JStr(ai_json)}
             /\ \A i \in 2..5 : coerced[1].fields[FieldNames[i]] = Sentinel(i)

\* C10: for every fallback text analyze_text can make, two applications of
\* _coerce_to_fields give the same record, and its five fields are the five
\* fields of the fallback that was serialized.
C10_FallbackRoundTrip ==
    (src.kind = "fallback" /\ Len(coerced) = 2) =>
        /\ coerced[1] = coerced[2]
        /\ coerced[1].raised = "none"
        /\ \A i \in 1..5 :
             coerced[1].fields[FieldNames[i]] = GivenOrSentinel(src.members, i)
        /\ \A i \in 1..5 : \E m \in 1..5 : src.members[m].k = FieldKeys[i]

C10_Witness ==
    /\ src.kind = "fallback" /\ Len(coerced) = 2
    /\ src.n >= 10
    /\ \E i \in 1..Len(src.body) : src.body[i] = "\\"
    /\ \E i \in 1..Len(src.body) : src.body[i] = "\""
    /\ \E i \in 1..Len(src.body) : src.body[i] = EAcute

\* the last attempt of the finished section passed json.loads, so its text
\* was appended as the analysis
GateAccepted ==
    /\ SectionDone
    /\ outcomes # <<>>
    /\ outcomes[Len(outcomes)].kind = "valid"

\* C11: an analysis that passed the validation of analyze_text (json.loads
\* accepted the response) is mapped to fields by _coerce_to_fields, never
\* sent to its failure branch, whatever JSON value the response is.
C11_GateImpliesMapping ==
    GateAccepted =>
        coerce_to_fields(results[idx - 1].analysis).branch = "mapped"

\* the completion calls of the current section, in order
Calls == SelectSeq(log, IsCall)

\* the failed attempts of the current section that were not the last one
\* the loop allows
FailedBeforeLast == { k \in 1..Len(outcomes) : IsFailure(outcomes[k]) /\ k < retries }

\* C12: in the retry loop of a section, with retries = N >= 1, every failed
\* attempt but the N-th is followed by exactly one wait and one corrective
\* instruction before the next attempt, so the k-th attempt is sent with
\* k - 1 corrective instructions; the N-th failed attempt is followed by no
\* wait and no call; and the prompt of every section starts without
\* corrective instructions.
C12_WaitAndCorrectivePerRetry ==
    (retries >= 1 /\ (pc \in {"attempt", "append"} \/ SectionDone)) =>
        /\ Len(Calls) = Len(outcomes)
        /\ Len(Calls) <= retries
        /\ \A k \in 1..Len(Calls) :
             Calls[k].prompt = [title |-> title, body |-> body, corrective |-> k - 1]
        /\ \A i \in 1..Len(log) :
             /\ IsCall(log[i]) => (i = 1 \/ IsSleep(log[i - 1]))
             /\ IsSleep(log[i]) => (i > 1 /\ IsCall(log[i - 1]))
        /\ Len(SelectSeq(log, IsSleep)) = Cardinality(FailedBeforeLast)
        /\ pc = "attempt" =>
             /\ prompt.corrective = Len(Calls)
             /\ attempt = Len(Calls) + 1
             /\ (log = <<>> \/ IsSleep(log[Len(log)]))
        /\ pc # "attempt" =>
             /\ prompt.corrective = Cardinality(FailedBeforeLast)
             /\ IsCall(log[Len(log)])

C12_Witness ==
    /\ SectionDone
    /\ idx = 3
    /\ retries >= 2
    /\ results[1].analysis = FallbackJson(retries, sections[1].body)
    /\ Len(SelectSeq(log, IsSleep)) >= 1
    /\ Calls[1].prompt.corrective = 0
    /\ IsFailure(outcomes[Len(outcomes)])

\* the first attempt of the current section whose text json.loads accepted,
\* 0 when there is none
FirstAccepted ==
    IF AllFailed THEN 0
    ELSE CHOOSE k \in 1..Len(outcomes) :
           /\ ~ IsFailure(outcomes[k])
           /\ \A j \in 1..(k - 1) : IsFailure(outcomes[j])

\* C13: with retries >= 1 the analysis of a section is the fallback record
\* exactly when all retries attempts failed; otherwise it is the stripped
\* text of the first attempt that parsed as JSON, after which no call is
\* made for the section. So every returned analysis parses as JSON.
C13_FallbackIffAllFailed ==
    (SectionDone /\ retries >= 1) =>
        LET analysis == results[idx - 1].analysis
        IN  /\ AllFailed => /\ Len(outcomes) = retries
                            /\ analysis = FallbackJson(retries, body)
            /\ ~ AllFailed =>
                 /\ FirstAccepted = Len(outcomes)
                 /\ Len(Calls) = FirstAccepted
                 /\ analysis = outcomes[FirstAccepted].text
                 /\ \E o \in Outcomes : o.kind = "response" /\ analysis = Strip(o.text)
                 /\ analysis # FallbackJson(retries, body)
            /\ json_loads(analysis).ok

C13_Witness ==
    /\ SectionDone
    /\ retries >= 2
    /\ Len(outcomes) = 2
    /\ outcomes[1].kind = "invalid"
    /\ outcomes[2].kind = "valid"
    /\ results[idx - 1].analysis # outcomes[1].text

\* C14: in every state of every interleaving of POST /analyze with
\* DELETE /reset, every Incident row's file_id names a File row and every
\* Analysis row's incident_id names an Incident row.
C14_ReferentialIntegrity ==
    /\ \A i \in incidents : RowExists(files, i.file_id)
    /\ \A a \in analyses : RowExists(incidents, a.incident_id)

\* the Incident rows of the request's file, and the Analysis rows of an
\* incident
IncidentsOfFile == { i \in incidents : i.file_id = resp.file_id }

AnalysesOf(id) == { a \in analyses : a.incident_id = id }

\* C15: when POST /analyze has answered for a non-blank text, it created
\* as many Incident rows as analyze_text counted incidents, and the i-th
\* row has the case label of the i-th result as case_name (also "Incident
\* <i>" for a section without heading) and one Analysis row that holds
\* _coerce_to_fields of the i-th analysis. Stated for the requests since
\* whose beginning no DELETE /reset ran.
C15_RowsMatchResults ==
    (apc = "responded" /\ resp.status = 200 /\ ~ disturbed) =>
        /\ resp.total_incidents = ret.total_incidents
        /\ Cardinality(IncidentsOfFile) = ret.total_incidents
        /\ \A i \in 1..Len(resp.inserted) :
             \E row \in IncidentsOfFile :
                /\ row.id = resp.inserted[i].incident_id
                /\ row.case_name = ret.analysis[i].case
                /\ Cardinality(AnalysesOf(row.id)) = 1
                /\ \A a \in AnalysesOf(row.id) :
                     a.fields = coerce_to_fields(ret.analysis[i].analysis).fields

====
